---- MODULE Spec2Model ----
(***************************************************************************)
(* A model of the patchwork library: the Myers shortest-edit-script        *)
(* engine (myers/mod.rs), the hunk builder and the hunk applier            *)
(* (patch/mod.rs), the structural differ and applier (recursive/mod.rs)    *)
(* and the unified-diff codec (serialization.rs).                          *)
(*                                                                         *)
(* Rust indices are 0-based; TLA+ sequences are 1-based, so old[x] of the  *)
(* source is old[x + 1] here.  Counters (old_line, x, y, old_start) keep   *)
(* the source's 0-based values.                                            *)
(***************************************************************************)
EXTENDS Integers, Sequences, FiniteSets, TLC

\* ------------------------------------------------------------------ bounds

\* Longest old / new sequence handed to myers::diff.
MaxLen == 5

\* The element alphabet of the sequences.
Alphabet == {"a", "b"}

\* Longest edit script handed directly to patch::hunks.
MaxScript == 8

\* patch::apply on any hunk list: the longest old, the most edits of a hunk and
\* the largest old_start; the hunk lists hold no, one or two hunks.
MaxApplyOld == 2
MaxChanges == 2
MaxStart == 1
HunkListLengths == {0, 1, 2}

RECURSIVE SeqsUpTo(_, _)
SeqsUpTo(S, n) ==
    IF n = 0 THEN {<<>>}
    ELSE LET shorter == SeqsUpTo(S, n - 1)
         IN  shorter \cup {Append(s, e) : s \in {t \in shorter : Len(t) = n - 1}, e \in S}

\* ------------------------------------------------------------------ Edit

\* myers/types.rs: enum Edit<T> { Insert(T), Delete(T), Equal(T) }
Insert(t) == [tag |-> "Insert", val |-> t]
Delete(t) == [tag |-> "Delete", val |-> t]
Equal(t) == [tag |-> "Equal", val |-> t]

RECURSIVE FilterMap(_, _)
\* The payloads of the edits of s whose tag is in tags, in order.
FilterMap(s, tags) ==
    IF s = <<>> THEN <<>>
    ELSE (IF Head(s).tag \in tags THEN <<Head(s).val>> ELSE <<>>) \o FilterMap(Tail(s), tags)

RECURSIVE Count(_, _)
\* The number of edits of s whose tag is in tags.
Count(s, tags) ==
    IF s = <<>> THEN 0
    ELSE (IF Head(s).tag \in tags THEN 1 ELSE 0) + Count(Tail(s), tags)

Max(a, b) == IF a >= b THEN a ELSE b

\* ------------------------------------------------------------------ Myers

\* V::new with 2*size-1 slots.
VNewShort(size) == [k \in (1 - size)..(size - 1) |-> 0]

\* V::new(size): 2*size+1 zeroes, addressed by the diagonal k in -size..size.
VNew(size) == [k \in (0 - size)..size |-> 0]

\* V::get(k)
VGet(v, k) == v[k]

\* V::set(k, val)
VSet(v, k, val) == [v EXCEPT ![k] = val]

\* Snake with `if` in place of `while`: at most one matching pair is followed.
SnakeOnce(old, new, x, y) ==
    IF x < Len(old) /\ y < Len(new) /\ old[x + 1] = new[y + 1] THEN x + 1 ELSE x

RECURSIVE Snake(_, _, _, _)
\* while x < n && y < m && old[x] == new[y] { x += 1; y += 1 }
Snake(old, new, x, y) ==
    IF x < Len(old) /\ y < Len(new) /\ old[x + 1] = new[y + 1]
    THEN Snake(old, new, x + 1, y + 1)
    ELSE x

\* The choice of x on diagonal k in round d.
ChooseX(v, d, k) ==
    IF k = 0 - d THEN VGet(v, k + 1)
    ELSE IF k = d THEN VGet(v, k - 1) + 1
    ELSE Max(VGet(v, k + 1), VGet(v, k - 1) + 1)

RECURSIVE ForwardK(_, _, _, _, _)
\* The inner loop `for k in (-d..=d).step_by(2)` from diagonal k on.
\* Returns the vector and whether the end point was reached (break 'edits).
ForwardK(old, new, v, d, k) ==
    IF k > d THEN [v |-> v, done |-> FALSE]
    ELSE LET x0 == ChooseX(v, d, k)
             x == Snake(old, new, x0, x0 - k)
             y == x - k
             v2 == VSet(v, k, x)
         IN  IF x >= Len(old) /\ y >= Len(new)
             THEN [v |-> v2, done |-> TRUE, x |-> x, y |-> y]
             ELSE ForwardK(old, new, v2, d, k + 2)

RECURSIVE ForwardD(_, _, _, _, _)
\* The outer loop `'edits: for d in 0..=maxi` from round d on.
\* Returns the trace of snapshots and the end point.
ForwardD(old, new, v, d, trace) ==
    IF d > Len(old) + Len(new)
    THEN [trace |-> trace, x |-> Len(old), y |-> Len(new)]
    ELSE LET r == ForwardK(old, new, v, d, 0 - d)
         IN  IF r.done
             THEN [trace |-> Append(trace, r.v), x |-> r.x, y |-> r.y]
             ELSE ForwardD(old, new, r.v, d + 1, Append(trace, r.v))

\* PrevK with `>` in place of `>=`: a tie goes to the diagonal above.
PrevKStrict(vd, d, k) ==
    IF k = 0 - d THEN k + 1
    ELSE IF k = d \/ VGet(vd, k - 1) + 1 > VGet(vd, k + 1) THEN k - 1
    ELSE k + 1

\* The choice of prev_k in the back-trace at round d on diagonal k.
PrevK(vd, d, k) ==
    IF k = 0 - d THEN k + 1
    ELSE IF k = d \/ VGet(vd, k - 1) + 1 >= VGet(vd, k + 1) THEN k - 1
    ELSE k + 1

\* Unsnake that walks back over no matching pair.
UnsnakeNone(old, new, x, y, prev_x, prev_y, changes) ==
    [x |-> x, y |-> y, changes |-> changes]

RECURSIVE Unsnake(_, _, _, _, _, _, _)
\* while x > prev_x && y > prev_y && old[x-1] == new[y-1] { push Equal; x -= 1; y -= 1 }
Unsnake(old, new, x, y, prev_x, prev_y, changes) ==
    IF x > prev_x /\ y > prev_y /\ old[x] = new[y]
    THEN Unsnake(old, new, x - 1, y - 1, prev_x, prev_y, Append(changes, Equal(old[x])))
    ELSE [x |-> x, y |-> y, changes |-> changes]

RECURSIVE Drain(_, _, _, _)
\* while x > 0 && y > 0 { push Equal(old[x-1]); x -= 1; y -= 1 }
\* y is a usize that may hold the wrapped value of -1: `y > 0` is `y # 0`.
Drain(old, x, y, changes) ==
    IF x > 0 /\ y # 0
    THEN Drain(old, x - 1, y - 1, Append(changes, Equal(old[x])))
    ELSE changes

RECURSIVE Reverse(_)
Reverse(s) == IF s = <<>> THEN <<>> ELSE Append(Reverse(Tail(s)), Head(s))

\* StepEdit that pushes a Delete in both branches.
StepEditDeleteTwice(old, new, x, y, prev_k, k) ==
    IF prev_k = k - 1 THEN Delete(old[x]) ELSE Delete(new[y])

\* StepEdit with the two tags exchanged.
StepEditSwapped(old, new, x, y, prev_k, k) ==
    IF prev_k = k - 1 THEN Insert(old[x]) ELSE Delete(new[y])

\* if prev_k == k - 1 { Delete(old[x - 1]) } else { Insert(new[y - 1]) }
StepEdit(old, new, x, y, prev_k, k) ==
    IF prev_k = k - 1 THEN Delete(old[x]) ELSE Insert(new[y])

RECURSIVE TracebackD(_, _, _, _, _, _, _)
\* `for d in (0..trace.len()).rev()` from round d down (d is the 0-based index).
TracebackD(old, new, trace, d, x, y, changes) ==
    IF d < 0 THEN Drain(old, x, y, changes)
    ELSE LET vd == trace[d + 1]
             k == x - y
             prev_k == PrevK(vd, d, k)
             prev_x == VGet(vd, prev_k)
             prev_y == prev_x - prev_k
             u == Unsnake(old, new, x, y, prev_x, prev_y, changes)
             c2 == IF d > 0
                   THEN Append(u.changes, StepEdit(old, new, u.x, u.y, prev_k, k))
                   ELSE u.changes
         IN  TracebackD(old, new, trace, d - 1, prev_x, prev_y, c2)

\* fn traceback(old, new, trace, x, y)
traceback(old, new, trace, x, y) ==
    Reverse(TracebackD(old, new, trace, Len(trace) - 1, x, y, <<>>))

\* diff with the results of the two early returns exchanged.
diffDegenerateSwapped(old, new) ==
    IF old = <<>> THEN [i \in 1..Len(new) |-> Delete(new[i])]
    ELSE IF new = <<>> THEN [i \in 1..Len(old) |-> Insert(old[i])]
    ELSE LET f == ForwardD(old, new, VNew(Len(old) + Len(new)), 0, <<>>)
         IN  traceback(old, new, f.trace, f.x, f.y)

\* pub fn diff(old, new)
diff(old, new) ==
    IF old = <<>> THEN [i \in 1..Len(new) |-> Insert(new[i])]
    ELSE IF new = <<>> THEN [i \in 1..Len(old) |-> Delete(old[i])]
    ELSE LET f == ForwardD(old, new, VNew(Len(old) + Len(new)), 0, <<>>)
         IN  traceback(old, new, f.trace, f.x, f.y)

\* ------------------------------------------------------------------ Hunk builder

\* The size of the context window (the literal 3 of HunkBuilder::process).
ContextSize == 3

\* patch/types.rs: struct Hunk<T> { old_start, new_start, changes }
Hunk(os, ns, ch) == [old_start |-> os, new_start |-> ns, changes |-> ch]

\* Option<Hunk<T>>: None is <<>>, Some(h) is <<h>>.
None == <<>>
Some(h) == <<h>>

\* HunkBuilder::new()
HunkBuilderNew ==
    [old_line |-> 0, new_line |-> 0, current |-> None, trailing_equal_count |-> 0,
     context_buffer |-> <<>>, hunks |-> <<>>]

\* Evict that never pops the front of the buffer.
EvictNever(buf) == buf

RECURSIVE Evict(_)
\* while self.context_buffer.len() > 3 { self.context_buffer.pop_front(); }
Evict(buf) == IF Len(buf) > ContextSize THEN Evict(Tail(buf)) ELSE buf

\* self.context_buffer.push_back(Edit::Equal(el.clone())) and the eviction loop.
\* The push is made whether or not a hunk is open.
PushContext(b, edit) == Evict(Append(b.context_buffer, edit))

\* ProcessEqual that closes the open hunk at the second trailing Equal.
ProcessEqualCloseAtTwo(b, edit) ==
    LET buf == PushContext(b, edit)
        b1 == [b EXCEPT !.context_buffer = buf]
        b2 == IF b1.current # None
              THEN LET c == [b1.current[1] EXCEPT !.changes = Append(@, edit)]
                       t == b1.trailing_equal_count + 1
                   IN  IF t >= 2
                       THEN [b1 EXCEPT !.hunks = Append(@, c), !.current = None,
                                       !.trailing_equal_count = t]
                       ELSE [b1 EXCEPT !.current = Some(c), !.trailing_equal_count = t]
              ELSE b1
    IN  [b2 EXCEPT !.old_line = @ + 1, !.new_line = @ + 1]

\* The Equal arm of HunkBuilder::process.
ProcessEqual(b, edit) ==
    LET buf == PushContext(b, edit)
        b1 == [b EXCEPT !.context_buffer = buf]
        b2 == IF b1.current # None
              THEN LET c == [b1.current[1] EXCEPT !.changes = Append(@, edit)]
                       t == b1.trailing_equal_count + 1
                   IN  IF t >= ContextSize
                       THEN [b1 EXCEPT !.hunks = Append(@, c), !.current = None,
                                       !.trailing_equal_count = t]
                       ELSE [b1 EXCEPT !.current = Some(c), !.trailing_equal_count = t]
              ELSE b1
    IN  [b2 EXCEPT !.old_line = @ + 1, !.new_line = @ + 1]

\* OpenHunk that does not step the two starts back over the buffered context.
OpenHunkNoContext(b, edit) ==
    Hunk(b.old_line, b.new_line, Append(b.context_buffer, edit))

\* The opening of a hunk: old_start and new_start step back over the buffered
\* context, which is drained into the hunk before the edit.  The differences
\* are the mathematical ones: a negative start is a usize underflow.
OpenHunk(b, edit) ==
    Hunk(b.old_line - Len(b.context_buffer),
         b.new_line - Len(b.context_buffer),
         Append(b.context_buffer, edit))

\* ProcessModify that leaves trailing_equal_count as it was.
ProcessModifyNoReset(b, edit) ==
    LET b2 == IF b.current # None
              THEN [b EXCEPT !.current = Some([b.current[1] EXCEPT !.changes = Append(@, edit)])]
              ELSE [b EXCEPT !.current = Some(OpenHunk(b, edit)), !.context_buffer = <<>>]
    IN  IF edit.tag = "Insert"
        THEN [b2 EXCEPT !.new_line = @ + 1]
        ELSE [b2 EXCEPT !.old_line = @ + 1]

\* The Insert / Delete arm of HunkBuilder::process.
ProcessModify(b, edit) ==
    LET b1 == [b EXCEPT !.trailing_equal_count = 0]
        b2 == IF b1.current # None
              THEN [b1 EXCEPT !.current = Some([b1.current[1] EXCEPT !.changes = Append(@, edit)])]
              ELSE [b1 EXCEPT !.current = Some(OpenHunk(b1, edit)), !.context_buffer = <<>>]
    IN  IF edit.tag = "Insert"
        THEN [b2 EXCEPT !.new_line = @ + 1]
        ELSE [b2 EXCEPT !.old_line = @ + 1]

\* HunkBuilder::process
process(b, edit) ==
    IF edit.tag = "Equal" THEN ProcessEqual(b, edit) ELSE ProcessModify(b, edit)

\* finish that forgets the hunk still open.
finishNoFlush(b) == b.hunks

\* HunkBuilder::finish
finish(b) == IF b.current # None THEN Append(b.hunks, b.current[1]) ELSE b.hunks

RECURSIVE ProcessAll(_, _)
ProcessAll(b, edits) ==
    IF edits = <<>> THEN b ELSE ProcessAll(process(b, Head(edits)), Tail(edits))

\* pub fn hunks(edits)
hunksOf(edits) == finish(ProcessAll(HunkBuilderNew, edits))

\* ------------------------------------------------------------------ Hunk applier

\* Result<Vec<String>, PatchError>, and an abort of the thread (a panic).
Ok(v) == [kind |-> "Ok", val |-> v]
InvalidFormat(detail) == [kind |-> "Err", err |-> "InvalidFormat", msg |-> detail]
UnexpectedToken(line) == [kind |-> "Err", err |-> "UnexpectedToken", msg |-> line]
Panic == [kind |-> "Panic"]
Running == [kind |-> "Running"]

\* ContextMismatch that counts lines from 1.
ContextMismatchOneBased(old_line, t, found) ==
    InvalidFormat(<<"Context mismatch at line", old_line + 1, "expected", t, "found", found>>)

\* format!("Context mismatch at line {}: expected '{}', found '{}'", old_line, t, old[old_line])
ContextMismatch(old_line, t, found) ==
    InvalidFormat(<<"Context mismatch at line", old_line, "expected", t, "found", found>>)

\* "Cannot apply hunks".to_string()
CannotApply == InvalidFormat(<<"Cannot apply hunks">>)

RECURSIVE HunkBody(_, _, _, _)
\* `for change in &hunk.changes` of apply, from the cursor old_line on.
\* old[old_line] past the end of old is an index-out-of-bounds panic.
HunkBody(old, old_line, result, changes) ==
    IF changes = <<>> THEN [kind |-> "Next", old_line |-> old_line, result |-> result]
    ELSE LET change == Head(changes) IN
         IF change.tag = "Equal"
         THEN IF old_line >= Len(old) THEN Panic
              ELSE IF old[old_line + 1] # change.val
                   THEN ContextMismatch(old_line, change.val, old[old_line + 1])
                   ELSE HunkBody(old, old_line + 1, Append(result, old[old_line + 1]),
                                 Tail(changes))
         ELSE IF change.tag = "Insert"
         THEN HunkBody(old, old_line, Append(result, change.val), Tail(changes))
         ELSE HunkBody(old, old_line + 1, result, Tail(changes))

\* FlatChanges that stops after the first hunk.
FlatChangesFirst(hs) == IF hs = <<>> THEN <<>> ELSE Head(hs).changes

RECURSIVE FlatChanges(_)
\* hunks.into_iter().flat_map(|h| h.changes.iter())
FlatChanges(hs) == IF hs = <<>> THEN <<>> ELSE Head(hs).changes \o FlatChanges(Tail(hs))

\* ------------------------------------------------------------------ Tree model

\* Longest Vec inside a value given to recursive::diff.
MaxTreeLen == 1

\* The most edits of a hunk given to to_patch.
MaxCodecChanges == 2

\* The most edits of a SequenceChange given directly to recursive::apply, and
\* the longest Vec it is applied to.
MaxSeqEdits == 2

\* The map keys and the leaves of the values.
Keys == {"k", "l"}
Leaves == {1, 2}

\* recursive/types.rs: enum Node<P> { Map(HashMap<String, Node<P>>), Sequence(Vec<Node<P>>), Leaf(P) }
\* A HashMap is a function on its set of keys.
Map(m) == [kind |-> "Map", val |-> m]
Sequence(v) == [kind |-> "Sequence", val |-> v]
Leaf(p) == [kind |-> "Leaf", val |-> p]

\* unreachable!() and unwrap() on None abort the thread.
Abort == [kind |-> "Abort", val |-> <<>>]

\* A type that implements Diffable, outermost constructor first:
\* <<"map", "vec", "leaf">> is HashMap<String, Vec<i32>>.
DiffableTypes ==
    {<<"leaf">>, <<"vec", "leaf">>, <<"map", "leaf">>,
     <<"map", "vec", "leaf">>, <<"map", "map", "leaf">>, <<"vec", "map", "leaf">>}

RECURSIVE ValuesOf(_)
\* The values of a Diffable type: a leaf, a Vec (a sequence), a HashMap (a function).
ValuesOf(t) ==
    IF Head(t) = "leaf" THEN Leaves
    ELSE IF Head(t) = "vec" THEN SeqsUpTo(ValuesOf(Tail(t)), MaxTreeLen)
    ELSE UNION {[D -> ValuesOf(Tail(t))] : D \in SUBSET Keys}

RECURSIVE to_node(_, _)
\* Diffable::to_node of Vec<T>, HashMap<String, T> and the primitives.
to_node(t, x) ==
    IF Head(t) = "leaf" THEN Leaf(x)
    ELSE IF Head(t) = "vec" THEN Sequence([i \in 1..Len(x) |-> to_node(Tail(t), x[i])])
    ELSE Map([k \in DOMAIN x |-> to_node(Tail(t), x[k])])

RECURSIVE FromNodeOk(_, _)
\* from_node meets the variant it expects at every level (no unreachable!()).
FromNodeOk(t, n) ==
    IF Head(t) = "leaf" THEN n.kind = "Leaf"
    ELSE IF Head(t) = "vec"
    THEN n.kind = "Sequence" /\ \A i \in 1..Len(n.val) : FromNodeOk(Tail(t), n.val[i])
    ELSE n.kind = "Map" /\ \A k \in DOMAIN n.val : FromNodeOk(Tail(t), n.val[k])

RECURSIVE FromNodeValue(_, _)
FromNodeValue(t, n) ==
    IF Head(t) = "leaf" THEN n.val
    ELSE IF Head(t) = "vec" THEN [i \in 1..Len(n.val) |-> FromNodeValue(Tail(t), n.val[i])]
    ELSE [k \in DOMAIN n.val |-> FromNodeValue(Tail(t), n.val[k])]

\* Diffable::from_node of Vec<T>, HashMap<String, T> and the primitives.
from_node(t, n) == IF FromNodeOk(t, n) THEN Ok(FromNodeValue(t, n)) ELSE Panic

\* recursive/types.rs: PathSegment::Key
Key(k) == [seg |-> "Key", key |-> k]

\* recursive/types.rs: PathSegment::Index
Index(i) == [seg |-> "Index", idx |-> i]

\* recursive/types.rs: struct Change<P> { path, kind }
Change(path, kind) == [path |-> path, kind |-> kind]

\* recursive/types.rs: enum ChangeKind<P>.  StructureAdded and StructureRemoved
\* are the names recursive/mod.rs uses for NodeAdded and NodeRemoved.
Added(p) == [ck |-> "Added", new |-> p]
StructureAdded(n) == [ck |-> "StructureAdded", new |-> n]
Removed(p) == [ck |-> "Removed", old |-> p]
StructureRemoved(n) == [ck |-> "StructureRemoved", old |-> n]
Modified(a, b) == [ck |-> "Modified", old |-> a, new |-> b]
SequenceChange(edits) == [ck |-> "SequenceChange", edits |-> edits]

\* The orders in which the union of two key sets may be iterated.
KeyOrders == {o \in [1..Cardinality(Keys) -> Keys] : \A i, j \in 1..Cardinality(Keys) : i # j => o[i] # o[j]}

\* The paths at which a map may stand in a value of a type of DiffableTypes.
MapPaths == {<<>>} \cup {<<Key(k)>> : k \in Keys}

\* One iteration order for the key union of the map at each path.
Iterations == [MapPaths -> KeyOrders]

IsKey(order, keys) == LET in(k) == k \in keys IN SelectSeq(order, in)

RECURSIVE diff_nodes(_, _, _, _)
RECURSIVE DiffKeys(_, _, _, _, _)

\* DiffKey that reports every key of one side as a structure, leaf or not.
DiffKeyStructureOnly(a, b, path, key, it) ==
    LET new_path == Append(path, Key(key)) IN
    IF key \in DOMAIN a /\ key \in DOMAIN b THEN diff_nodes(a[key], b[key], new_path, it)
    ELSE IF key \in DOMAIN a THEN <<Change(new_path, StructureRemoved(a[key]))>>
    ELSE <<Change(new_path, StructureAdded(b[key]))>>

\* The closure of the flat_map of the Map arm of diff_nodes, for one key.
DiffKey(a, b, path, key, it) ==
    LET new_path == Append(path, Key(key)) IN
    IF key \in DOMAIN a /\ key \in DOMAIN b THEN diff_nodes(a[key], b[key], new_path, it)
    ELSE IF key \in DOMAIN a
    THEN IF a[key].kind = "Leaf"
         THEN <<Change(new_path, Removed(a[key].val))>>
         ELSE <<Change(new_path, StructureRemoved(a[key]))>>
    ELSE IF b[key].kind = "Leaf"
         THEN <<Change(new_path, Added(b[key].val))>>
         ELSE <<Change(new_path, StructureAdded(b[key]))>>

\* keys_a.union(&keys_b).flat_map(..).collect(), the union iterated in order.
DiffKeys(a, b, path, order, it) ==
    IF order = <<>> THEN <<>>
    ELSE DiffKey(a, b, path, Head(order), it) \o DiffKeys(a, b, path, Tail(order), it)

\* AllEqual that is false of every non-empty script.
AllEqualNever(edits) == edits = <<>>

\* AllEqual that tests for the wrong variant.
NoDelete(edits) == \A i \in 1..Len(edits) : edits[i].tag # "Delete"

\* result.iter().all(|e| matches!(e, Edit::Equal(_)))
AllEqual(edits) == \A i \in 1..Len(edits) : edits[i].tag = "Equal"

\* fn diff_nodes(old, new, path); it gives the iteration order of each key union.
diff_nodes(a, b, path, it) ==
    IF a.kind = "Leaf" /\ b.kind = "Leaf"
    THEN IF a.val # b.val THEN <<Change(path, Modified(a.val, b.val))>> ELSE <<>>
    ELSE IF a.kind = "Sequence" /\ b.kind = "Sequence"
    THEN LET r == diff(a.val, b.val)
         IN  IF AllEqual(r) THEN <<>> ELSE <<Change(path, SequenceChange(r))>>
    ELSE IF a.kind = "Map" /\ b.kind = "Map"
    THEN DiffKeys(a.val, b.val, path,
                  IsKey(it[path], DOMAIN a.val \cup DOMAIN b.val), it)
    ELSE <<Change(path, StructureRemoved(a)), Change(path, StructureAdded(b))>>

\* HashMap::insert and HashMap::remove
MapInsert(m, key, n) == [k \in DOMAIN m \cup {key} |-> IF k = key THEN n ELSE m[k]]
MapRemove(m, key) == [k \in DOMAIN m \ {key} |-> m[k]]

\* apply_to_sequence that pushes the deleted elements too.
apply_to_sequenceKeepDeleted(edits) == Sequence(FilterMap(edits, {"Equal", "Insert", "Delete"}))

\* fn apply_to_sequence(edits)
apply_to_sequence(edits) == Sequence(FilterMap(edits, {"Equal", "Insert"}))

RECURSIVE apply_change(_, _)

\* fn apply_to_map(map, key, change)
apply_to_map(map, key, change) ==
    IF Len(change.path) > 1
    THEN IF key \notin DOMAIN map THEN Abort
         ELSE LET sub == apply_change(map[key], Change(Tail(change.path), change.kind))
              IN  IF sub.kind = "Abort" THEN Abort ELSE Map(MapInsert(map, key, sub))
    ELSE IF change.kind.ck = "StructureAdded" THEN Map(MapInsert(map, key, change.kind.new))
    ELSE IF change.kind.ck = "Added" THEN Map(MapInsert(map, key, Leaf(change.kind.new)))
    ELSE IF change.kind.ck \in {"StructureRemoved", "Removed"} THEN Map(MapRemove(map, key))
    ELSE IF change.kind.ck = "Modified" THEN Map(MapInsert(map, key, Leaf(change.kind.new)))
    ELSE Abort

\* apply_change that rebuilds a sequence only when the path is empty.
apply_changeAtRootOnly(n, change) ==
    IF n.kind = "Map" /\ change.path # <<>> /\ Head(change.path).seg = "Key"
    THEN apply_to_map(n.val, Head(change.path).key, change)
    ELSE IF n.kind = "Sequence"
    THEN IF change.kind.ck = "SequenceChange"
         THEN IF change.path = <<>> THEN apply_to_sequence(change.kind.edits) ELSE n
         ELSE Abort
    ELSE IF n.kind = "Leaf"
    THEN IF change.kind.ck = "Modified" THEN Leaf(change.kind.new) ELSE Abort
    ELSE Abort

\* fn apply_change(node, change)
apply_change(n, change) ==
    IF n.kind = "Map" /\ change.path # <<>> /\ Head(change.path).seg = "Key"
    THEN apply_to_map(n.val, Head(change.path).key, change)
    ELSE IF n.kind = "Sequence"
    THEN IF change.kind.ck = "SequenceChange" THEN apply_to_sequence(change.kind.edits)
         ELSE Abort
    ELSE IF n.kind = "Leaf"
    THEN IF change.kind.ck = "Modified" THEN Leaf(change.kind.new) ELSE Abort
    ELSE Abort

\* ------------------------------------------------------------------ Unified-diff codec

\* A String is the sequence of its characters.
LF == "\n"
Digits == <<"0", "1", "2", "3", "4", "5", "6", "7", "8", "9">>

RECURSIVE ToDecimal(_)
\* format!("{}", n) of a usize
ToDecimal(n) ==
    IF n < 10 THEN <<Digits[n + 1]>> ELSE Append(ToDecimal(n \div 10), Digits[(n % 10) + 1])

IsDigit(c) == \E i \in 1..10 : Digits[i] = c
DigitValue(c) == (CHOOSE i \in 1..10 : Digits[i] = c) - 1

RECURSIVE DecimalValue(_)
DecimalValue(s) ==
    IF s = <<>> THEN 0
    ELSE 10 * DecimalValue(SubSeq(s, 1, Len(s) - 1)) + DigitValue(s[Len(s)])

\* str::parse::<usize>(): one optional '+', then at least one digit, digits only.
ParseUsize(s) ==
    LET body == IF s # <<>> /\ Head(s) = "+" THEN Tail(s) ELSE s
    IN  IF body = <<>> \/ \E i \in 1..Len(body) : ~IsDigit(body[i])
        THEN [ok |-> FALSE]
        ELSE [ok |-> TRUE, val |-> DecimalValue(body)]

\* str::starts_with
StartsWith(s, prefix) ==
    Len(s) >= Len(prefix) /\ SubSeq(s, 1, Len(prefix)) = prefix

EndsWith(s, suffix) ==
    Len(s) >= Len(suffix) /\ SubSeq(s, Len(s) - Len(suffix) + 1, Len(s)) = suffix

RECURSIVE TrimStartMatches(_, _)
\* str::trim_start_matches: the pattern is removed as often as it is a prefix.
TrimStartMatches(s, pat) ==
    IF StartsWith(s, pat) THEN TrimStartMatches(SubSeq(s, Len(pat) + 1, Len(s)), pat) ELSE s

RECURSIVE TrimEndMatches(_, _)
\* str::trim_end_matches
TrimEndMatches(s, pat) ==
    IF EndsWith(s, pat) THEN TrimEndMatches(SubSeq(s, 1, Len(s) - Len(pat)), pat) ELSE s

RECURSIVE SplitFrom(_, _, _)
\* str::split(sep): cur is the piece being read.
SplitFrom(s, sep, cur) ==
    IF s = <<>> THEN <<cur>>
    ELSE IF Head(s) = sep THEN <<cur>> \o SplitFrom(Tail(s), sep, <<>>)
    ELSE SplitFrom(Tail(s), sep, Append(cur, Head(s)))

Split(s, sep) == SplitFrom(s, sep, <<>>)

RECURSIVE Join(_, _)
\* [String]::join(sep)
Join(pieces, sep) ==
    IF pieces = <<>> THEN <<>>
    ELSE IF Len(pieces) = 1 THEN pieces[1]
    ELSE pieces[1] \o sep \o Join(Tail(pieces), sep)

\* impl ToPatch for Edit<T>
EditToPatch(e) ==
    IF e.tag = "Equal" THEN <<" ">> \o e.val
    ELSE IF e.tag = "Insert" THEN <<"+">> \o e.val
    ELSE <<"-">> \o e.val

\* Edit::from_patch that reads an empty line as an Equal of the empty string.
EditFromPatchEmptyEqual(s) ==
    IF s = <<>> THEN Ok(Equal(<<>>))
    ELSE IF Head(s) = " " THEN Ok(Equal(Tail(s)))
    ELSE IF Head(s) = "+" THEN Ok(Insert(Tail(s)))
    ELSE IF Head(s) = "-" THEN Ok(Delete(Tail(s)))
    ELSE UnexpectedToken(s)

\* impl FromPatch for Edit<String>
EditFromPatch(s) ==
    IF s # <<>> /\ Head(s) = " " THEN Ok(Equal(Tail(s)))
    ELSE IF s # <<>> /\ Head(s) = "+" THEN Ok(Insert(Tail(s)))
    ELSE IF s # <<>> /\ Head(s) = "-" THEN Ok(Delete(Tail(s)))
    ELSE UnexpectedToken(s)

\* format!("@@ -{},{} +{},{} @@", old_start, old_edits, new_start, new_edits)
HunkHeader(h) ==
    <<"@", "@", " ", "-">> \o ToDecimal(h.old_start) \o <<",">>
        \o ToDecimal(Count(h.changes, {"Delete", "Equal"}))
        \o <<" ", "+">> \o ToDecimal(h.new_start) \o <<",">>
        \o ToDecimal(Count(h.changes, {"Insert", "Equal"}))
        \o <<" ", "@", "@">>

\* impl ToPatch for Hunk<T>: format!("{}\n{}", header, body.join("\n"))
HunkToPatch(h) ==
    HunkHeader(h) \o <<LF>> \o Join([i \in 1..Len(h.changes) |-> EditToPatch(h.changes[i])], <<LF>>)

\* old_name.unwrap_or("old")
UnwrapOr(opt, default) == IF opt = None THEN default ELSE opt[1]

\* impl ToPatch for Vec<Hunk<T>>
to_patch(v, old_name, new_name) ==
    IF v = <<>> THEN <<>>
    ELSE <<"-", "-", "-", " ">> \o UnwrapOr(old_name, <<"o", "l", "d">>) \o <<LF>>
         \o <<"+", "+", "+", " ">> \o UnwrapOr(new_name, <<"n", "e", "w">>) \o <<LF>>
         \o Join([i \in 1..Len(v) |-> HunkToPatch(v[i])], <<LF>>)

\* fn parse_hunk_header(s): parts[1] of a header with one part is an
\* index-out-of-bounds panic.
parse_hunk_header(s0) ==
    LET s == TrimEndMatches(TrimStartMatches(s0, <<"@", "@", " ">>), <<" ", "@", "@">>)
        parts == Split(s, " ")
        old_start == ParseUsize(Split(TrimStartMatches(parts[1], <<"-">>), ",")[1])
        new_start == ParseUsize(Split(TrimStartMatches(parts[2], <<"+">>), ",")[1])
    IN  IF ~old_start.ok THEN InvalidFormat(s)
        ELSE IF Len(parts) < 2 THEN Panic
        ELSE IF ~new_start.ok THEN InvalidFormat(s)
        ELSE Ok(<<old_start.val, new_start.val>>)

\* finish of from_patch: if let Some(c) = current { hunks.push(c) }
PushCurrent(hk, current) == IF current # None THEN Append(hk, current[1]) ELSE hk

RECURSIVE FromPatchLines(_, _, _)
\* `for e in lines` of from_patch, with the hunk being read and the hunks read.
FromPatchLines(lines, current, hk) ==
    IF lines = <<>> THEN Ok(PushCurrent(hk, current))
    ELSE LET e == Head(lines) IN
         IF StartsWith(e, <<"@", "@">>)
         THEN LET r == parse_hunk_header(e)
              IN  IF r.kind # "Ok" THEN r
                  ELSE FromPatchLines(Tail(lines), Some(Hunk(r.val[1], r.val[2], <<>>)),
                                      PushCurrent(hk, current))
         ELSE IF current # None
         THEN LET r == EditFromPatch(e)
              IN  IF r.kind # "Ok" THEN r
                  ELSE FromPatchLines(Tail(lines),
                                      Some([current[1] EXCEPT !.changes = Append(@, r.val)]), hk)
         ELSE InvalidFormat(e)

\* lines.next().unwrap_or("")
LineOr(lines, i) == IF i <= Len(lines) THEN lines[i] ELSE <<>>

\* impl FromPatch for Vec<Hunk<String>>
from_patch(s) ==
    IF s = <<>> THEN Ok(<<>>)
    ELSE LET lines == Split(s, LF)
             first_line == LineOr(lines, 1)
             second_line == LineOr(lines, 2)
         IN  IF ~StartsWith(first_line, <<"-", "-", "-">>) \/ ~StartsWith(second_line, <<"+", "+", "+">>)
             THEN InvalidFormat(first_line \o <<LF>> \o second_line)
             ELSE FromPatchLines(SubSeq(lines, 3, Len(lines)), None, <<>>)

\* ------------------------------------------------------------------ state

VARIABLES
    pc,           \* the operation about to run
    old, new,     \* the two sequences given to myers::diff and patch::apply
    script,       \* the Vec<Edit<T>> given to patch::hunks
    pos,          \* the number of edits `for edit in edits` has handed to process
    builder,      \* the HunkBuilder
    hunks,        \* the &[Hunk<String>] given to patch::apply
    apply_old_line, \* apply's cursor old_line
    result,       \* apply's result vector
    hunk_iter,    \* the number of hunks apply's peekable iterator has passed
    outcome,      \* what apply returned
    ty,           \* the Diffable type T of the two values given to recursive::diff
    told, tnew,   \* the two values of type T given to recursive::diff and recursive::apply
    changes,      \* the Vec<Change<P>> returned by recursive::diff
    cpos,         \* the number of changes the fold of recursive::apply has taken
    node,         \* the accumulator of the fold of recursive::apply
    tout,         \* what recursive::apply returned
    hs,           \* the Vec<Hunk<String>> given to to_patch
    patch,        \* the text returned by to_patch and given to from_patch
    parsed,       \* what from_patch returned
    mv,           \* myers::diff's vector v
    mtrace,       \* myers::diff's trace, the snapshots of v
    md, mk,       \* the round d and the diagonal k of the loops of diff and traceback
    mx, my,       \* end_x and end_y of diff, then x and y of traceback
    mfound,       \* whether diff left its loops by `break 'edits`
    mchanges,     \* traceback's vector changes, before its reversal
    macc          \* the slots of v, old and new read or written in the last step

seqVars == <<old, new, script, pos, builder, hunks, apply_old_line, result, hunk_iter, outcome>>
treeVars == <<ty, told, tnew, changes, cpos, node, tout>>
codecVars == <<hs, patch, parsed>>
myersVars == <<mv, mtrace, md, mk, mx, my, mfound, mchanges, macc>>
vars == <<pc, seqVars, treeVars, codecVars, myersVars>>

SeqIdle ==
    /\ old = <<>> /\ new = <<>> /\ script = <<>> /\ pos = 0
    /\ builder = HunkBuilderNew /\ hunks = <<>>
    /\ apply_old_line = 0 /\ result = <<>> /\ hunk_iter = 0 /\ outcome = Running

TreeIdle ==
    /\ ty = <<>> /\ told = <<>> /\ tnew = <<>> /\ changes = <<>> /\ cpos = 0
    /\ node = <<>> /\ tout = Running

CodecIdle == hs = <<>> /\ patch = <<>> /\ parsed = Running

MyersIdle ==
    /\ mv = <<>> /\ mtrace = <<>> /\ md = 0 /\ mk = 0 /\ mx = 0 /\ my = 0
    /\ mfound = FALSE /\ mchanges = <<>> /\ macc = {}

ApplyIdle == apply_old_line = 0 /\ result = <<>> /\ hunk_iter = 0 /\ outcome = Running

Init ==
    /\ pc = "diff"
    /\ old \in SeqsUpTo(Alphabet, MaxLen)
    /\ new \in SeqsUpTo(Alphabet, MaxLen)
    /\ script = <<>>
    /\ pos = 0
    /\ builder = HunkBuilderNew
    /\ hunks = <<>>
    /\ ApplyIdle
    /\ TreeIdle
    /\ CodecIdle
    /\ MyersIdle

\* let edits = diff(&old, &new); the builder of hunks(edits) is created.
Diff ==
    /\ pc = "diff"
    /\ script' = diff(old, new)
    /\ pc' = "hunks"
    /\ UNCHANGED <<old, new, pos, builder, hunks, apply_old_line, result, hunk_iter, outcome>>
    /\ UNCHANGED <<treeVars, codecVars, myersVars>>

\* One turn of `for edit in edits { builder.process(edit); }`.
Process ==
    /\ pc = "hunks"
    /\ pos < Len(script)
    /\ builder' = process(builder, script[pos + 1])
    /\ pos' = pos + 1
    /\ UNCHANGED <<pc, old, new, script, hunks, apply_old_line, result, hunk_iter, outcome>>
    /\ UNCHANGED <<treeVars, codecVars, myersVars>>

\* builder.finish(): the hunk list is returned and handed to apply.
Finish ==
    /\ pc = "hunks"
    /\ pos = Len(script)
    /\ hunks' = finish(builder)
    /\ pc' = "apply"
    /\ UNCHANGED <<old, new, script, pos, builder, apply_old_line, result, hunk_iter, outcome>>
    /\ UNCHANGED <<treeVars, codecVars, myersVars>>

\* The two early returns of apply, or the entry into its loop.
ApplyStart ==
    /\ pc = "apply"
    /\ IF old = <<>>
       THEN outcome' = Ok(FilterMap(FlatChanges(hunks), {"Insert"})) /\ pc' = "done"
       ELSE IF hunks = <<>>
       THEN outcome' = Ok(old) /\ pc' = "done"
       ELSE outcome' = outcome /\ pc' = "loop"
    /\ UNCHANGED <<old, new, script, pos, builder, hunks, apply_old_line, result, hunk_iter>>
    /\ UNCHANGED <<treeVars, codecVars, myersVars>>

\* A turn of the loop with old_line == hunk.old_start: the hunk is applied.
ApplyHunk ==
    /\ pc = "loop"
    /\ apply_old_line < Len(old)
    /\ hunk_iter < Len(hunks)
    /\ apply_old_line = hunks[hunk_iter + 1].old_start
    /\ LET r == HunkBody(old, apply_old_line, result, hunks[hunk_iter + 1].changes)
       IN  IF r.kind = "Next"
           THEN /\ apply_old_line' = r.old_line
                /\ result' = r.result
                /\ hunk_iter' = hunk_iter + 1
                /\ UNCHANGED <<pc, outcome>>
           ELSE /\ outcome' = r
                /\ pc' = "done"
                /\ UNCHANGED <<apply_old_line, result, hunk_iter>>
    /\ UNCHANGED <<old, new, script, pos, builder, hunks>>
    /\ UNCHANGED <<treeVars, codecVars, myersVars>>

\* ApplyCopy that steps over old[old_line] without copying it.
ApplyCopySkip ==
    /\ pc = "loop"
    /\ apply_old_line < Len(old)
    /\ \/ hunk_iter >= Len(hunks)
       \/ /\ hunk_iter < Len(hunks)
          /\ apply_old_line < hunks[hunk_iter + 1].old_start
    /\ apply_old_line' = apply_old_line + 1
    /\ UNCHANGED <<pc, old, new, script, pos, builder, hunks, result, hunk_iter, outcome>>
    /\ UNCHANGED <<treeVars, codecVars, myersVars>>

\* A turn of the loop before the next hunk, or with no hunk left: old[old_line] is copied.
ApplyCopy ==
    /\ pc = "loop"
    /\ apply_old_line < Len(old)
    /\ \/ hunk_iter >= Len(hunks)
       \/ /\ hunk_iter < Len(hunks)
          /\ apply_old_line < hunks[hunk_iter + 1].old_start
    /\ result' = Append(result, old[apply_old_line + 1])
    /\ apply_old_line' = apply_old_line + 1
    /\ UNCHANGED <<pc, old, new, script, pos, builder, hunks, hunk_iter, outcome>>
    /\ UNCHANGED <<treeVars, codecVars, myersVars>>

\* A turn of the loop past the next hunk's old_start.
ApplyFail ==
    /\ pc = "loop"
    /\ apply_old_line < Len(old)
    /\ hunk_iter < Len(hunks)
    /\ apply_old_line > hunks[hunk_iter + 1].old_start
    /\ outcome' = CannotApply
    /\ pc' = "done"
    /\ UNCHANGED <<old, new, script, pos, builder, hunks, apply_old_line, result, hunk_iter>>
    /\ UNCHANGED <<treeVars, codecVars, myersVars>>

\* The loop ends: Ok(result).
ApplyReturn ==
    /\ pc = "loop"
    /\ apply_old_line >= Len(old)
    /\ outcome' = Ok(result)
    /\ pc' = "done"
    /\ UNCHANGED <<old, new, script, pos, builder, hunks, apply_old_line, result, hunk_iter>>
    /\ UNCHANGED <<treeVars, codecVars, myersVars>>

Apply == ApplyStart \/ ApplyHunk \/ ApplyCopy \/ ApplyFail \/ ApplyReturn

Next == Diff \/ Process \/ Finish \/ Apply

\* diff, then hunks, then apply on the sequences of Init.
Spec == Init /\ [][Next]_vars

\* The edit scripts of at most n edits; the payload of an edit is its position
\* in the script, so that every edit of a script is distinguishable.
Tags == {"Insert", "Delete", "Equal"}
ScriptsUpTo(n) ==
    UNION {{[i \in 1..l |-> [tag |-> f[i], val |-> i]] : f \in [1..l -> Tags]} : l \in 0..n}

InitScript ==
    /\ pc = "hunks"
    /\ old = <<>>
    /\ new = <<>>
    /\ script \in ScriptsUpTo(MaxScript)
    /\ pos = 0
    /\ builder = HunkBuilderNew
    /\ hunks = <<>>
    /\ ApplyIdle
    /\ TreeIdle
    /\ CodecIdle
    /\ MyersIdle

NextScript == Process \/ Finish

\* hunks(script) on any edit script, the result left in the variable hunks.
SpecScript == InitScript /\ [][NextScript]_vars

\* The edits of the hunks given directly to patch::apply.  apply never reads the
\* payload of a Delete, so one payload stands for all; an Equal("a") matches or
\* mismatches according to the element of old it meets.
ApplyEdits == {Equal("a"), Delete("a")} \cup {Insert(t) : t \in Alphabet}

\* apply reads old_start and changes only; new_start is left at 0.
ApplyHunks ==
    {Hunk(os, 0, ch) : os \in 0..MaxStart, ch \in SeqsUpTo(ApplyEdits, MaxChanges)}

ApplyHunkLists == UNION {[1..l -> ApplyHunks] : l \in HunkListLengths}

InitApply ==
    /\ pc = "apply"
    /\ old \in SeqsUpTo(Alphabet, MaxApplyOld)
    /\ new = <<>>
    /\ script = <<>>
    /\ pos = 0
    /\ builder = HunkBuilderNew
    /\ hunks \in ApplyHunkLists
    /\ ApplyIdle
    /\ TreeIdle
    /\ CodecIdle
    /\ MyersIdle

\* apply(old, hunks) on any old and any hunk list.
SpecApply == InitApply /\ [][Apply]_vars

\* ------------------------------------------------------------------ recursive diff and apply

InitTree ==
    /\ pc = "tree_diff"
    /\ SeqIdle
    /\ CodecIdle
    /\ MyersIdle
    /\ ty \in DiffableTypes
    /\ told \in ValuesOf(ty)
    /\ tnew \in ValuesOf(ty)
    /\ changes = <<>>
    /\ cpos = 0
    /\ node = <<>>
    /\ tout = Running

\* let changes = diff(&old, &new): the key unions are iterated in some order.
TreeDiff ==
    /\ pc = "tree_diff"
    /\ \E it \in Iterations : changes' = diff_nodes(to_node(ty, told), to_node(ty, tnew), <<>>, it)
    /\ node' = to_node(ty, told)
    /\ pc' = "tree_apply"
    /\ UNCHANGED <<ty, told, tnew, cpos, tout>>
    /\ UNCHANGED <<seqVars, codecVars, myersVars>>

\* One turn of the fold of recursive::apply: acc = apply_change(acc, e).
TreeApplyChange ==
    /\ pc = "tree_apply"
    /\ cpos < Len(changes)
    /\ LET n == apply_change(node, changes[cpos + 1])
       IN  IF n.kind = "Abort"
           THEN tout' = Panic /\ pc' = "tree_done" /\ UNCHANGED <<node, cpos>>
           ELSE node' = n /\ cpos' = cpos + 1 /\ UNCHANGED <<pc, tout>>
    /\ UNCHANGED <<ty, told, tnew, changes>>
    /\ UNCHANGED <<seqVars, codecVars, myersVars>>

\* The end of recursive::apply: T::from_node(new_node).
TreeFromNode ==
    /\ pc = "tree_apply"
    /\ cpos = Len(changes)
    /\ tout' = from_node(ty, node)
    /\ pc' = "tree_done"
    /\ UNCHANGED <<ty, told, tnew, changes, cpos, node>>
    /\ UNCHANGED <<seqVars, codecVars, myersVars>>

NextTree == TreeDiff \/ TreeApplyChange \/ TreeFromNode

\* recursive::apply(old, recursive::diff(old, new)) on two values of one Diffable type.
SpecTree == InitTree /\ [][NextTree]_vars

\* ------------------------------------------------------------------ recursive::apply on any SequenceChange

\* The edit scripts of a SequenceChange over leaves: Vec<Edit<Node<P>>>.
SeqChangeEdits ==
    SeqsUpTo({[tag |-> t, val |-> Leaf(p)] : t \in Tags, p \in Leaves}, MaxSeqEdits)

\* Paths a change may carry: empty, a key, an index, a key then an index.
ApplyPaths == {<<>>, <<Key("k")>>, <<Index(0)>>, <<Key("k"), Index(1)>>}

\* apply(&old, &[change]) for a Vec<i32> old and one SequenceChange of any
\* path and any edits.
InitTreeApply ==
    /\ pc = "tree_apply"
    /\ SeqIdle
    /\ CodecIdle
    /\ MyersIdle
    /\ ty = <<"vec", "leaf">>
    /\ told \in SeqsUpTo(Leaves, MaxSeqEdits)
    /\ tnew = <<>>
    /\ changes \in {<<Change(p, SequenceChange(e))>> : p \in ApplyPaths, e \in SeqChangeEdits}
    /\ cpos = 0
    /\ node = to_node(ty, told)
    /\ tout = Running

NextTreeApply == TreeApplyChange \/ TreeFromNode

\* recursive::apply on a sequence and one SequenceChange.
SpecTreeApply == InitTreeApply /\ [][NextTreeApply]_vars

\* ------------------------------------------------------------------ to_patch and from_patch

\* The payloads of the edits given to to_patch: the empty string, a letter, a
\* line feed.
Payloads == {<<>>, <<"a">>, <<LF>>}

CodecEdits ==
    {Equal(t) : t \in Payloads} \cup {Insert(<<"a">>), Delete(<<"a">>)}

\* The starts of the hunks given to to_patch: one and two decimal digits.
CodecStarts == {<<0, 0>>, <<3, 12>>}

CodecHunks ==
    {Hunk(st[1], st[2], ch) : st \in CodecStarts, ch \in SeqsUpTo(CodecEdits, MaxCodecChanges)}

CodecHunkLists == UNION {[1..l -> CodecHunks] : l \in HunkListLengths}

InitCodec ==
    /\ pc = "to_patch"
    /\ SeqIdle
    /\ TreeIdle
    /\ MyersIdle
    /\ hs \in CodecHunkLists
    /\ patch = <<>>
    /\ parsed = Running

\* let patch = hs.to_patch(None, None)
ToPatch ==
    /\ pc = "to_patch"
    /\ patch' = to_patch(hs, None, None)
    /\ pc' = "from_patch"
    /\ UNCHANGED <<hs, parsed>>
    /\ UNCHANGED <<seqVars, treeVars, myersVars>>

\* Vec::<Hunk<String>>::from_patch(&patch)
FromPatch ==
    /\ pc = "from_patch"
    /\ parsed' = from_patch(patch)
    /\ pc' = "codec_done"
    /\ UNCHANGED <<hs, patch>>
    /\ UNCHANGED <<seqVars, treeVars, myersVars>>

NextCodec == ToPatch \/ FromPatch

\* from_patch(to_patch(hs)) on any hunk list hs.
SpecCodec == InitCodec /\ [][NextCodec]_vars

\* ------------------------------------------------------------------ myers::diff step by step

\* Longest old / new sequence of the step-by-step diff, and its alphabet.
MaxMyersLen == 3
MyersAlphabet == {"a", "b", "c"}

\* A slot of v (idx is the diagonal k) or of old or new (idx counts from 0).
Slot(arr, idx) == [arr |-> arr, idx |-> idx]

\* self.data[(k + self.offset) as usize] is inside data.
InV(v, diags) == diags \subseteq DOMAIN v

\* The diagonals the choice of x reads in round d on diagonal k.
ChooseXReads(d, k) ==
    IF k = 0 - d THEN {k + 1} ELSE IF k = d THEN {k - 1} ELSE {k + 1, k - 1}

\* (x as isize - k) as usize: a negative difference wraps to a value above
\* every length.  y stays the difference; the comparisons take the wrap in.
USizeLt(y, len) == y >= 0 /\ y < len
USizeGe(y, len) == y < 0 \/ y >= len

\* The snake from (x, x - k): none when y has wrapped.
SnakeFrom(x, k) == IF USizeLt(x - k, Len(new)) THEN Snake(old, new, x, x - k) ELSE x

\* The slots of old and new the snake from (x0, x0 - k) to x reads: each pair
\* it follows, and the pair it stops at when both guards x < n, y < m pass.
SnakeSlots(x0, x, k) ==
    UNION {{Slot("old", i), Slot("new", i - k)} :
               i \in {j \in x0..x : j < Len(old) /\ USizeLt(j - k, Len(new))}}

InitMyers ==
    /\ pc = "myers_diff"
    /\ old \in SeqsUpTo(MyersAlphabet, MaxMyersLen)
    /\ new \in SeqsUpTo(MyersAlphabet, MaxMyersLen)
    /\ script = <<>>
    /\ pos = 0
    /\ builder = HunkBuilderNew
    /\ hunks = <<>>
    /\ ApplyIdle
    /\ TreeIdle
    /\ CodecIdle
    /\ MyersIdle

\* The two early returns of diff, or the entry into its loops.
MyersStart ==
    /\ pc = "myers_diff"
    /\ IF old = <<>>
       THEN /\ script' = [i \in 1..Len(new) |-> Insert(new[i])]
            /\ pc' = "myers_done"
            /\ UNCHANGED myersVars
       ELSE IF new = <<>>
       THEN /\ script' = [i \in 1..Len(old) |-> Delete(old[i])]
            /\ pc' = "myers_done"
            /\ UNCHANGED myersVars
       ELSE /\ mv' = VNew(Len(old) + Len(new))
            /\ mx' = Len(old)
            /\ my' = Len(new)
            /\ pc' = "myers_forward"
            /\ UNCHANGED <<script, mtrace, md, mk, mfound, mchanges, macc>>
    /\ UNCHANGED <<old, new, pos, builder, hunks, apply_old_line, result, hunk_iter, outcome>>
    /\ UNCHANGED <<treeVars, codecVars>>

\* One turn of `for k in (-d..=d).step_by(2)`, with the end of the round d
\* (trace.push(v.clone())) when k was its last diagonal.
MyersForward ==
    /\ pc = "myers_forward"
    /\ LET diags == ChooseXReads(md, mk) \cup {mk}
           x0 == ChooseX(mv, md, mk)
           x == SnakeFrom(x0, mk)
           v2 == VSet(mv, mk, x)
       IN  IF ~InV(mv, diags)
           THEN /\ pc' = "myers_panic"
                /\ macc' = {Slot("v", j) : j \in diags}
                /\ UNCHANGED <<mv, mtrace, md, mk, mx, my, mfound>>
           ELSE /\ macc' = {Slot("v", j) : j \in diags} \cup SnakeSlots(x0, x, mk)
                /\ mv' = v2
                /\ IF x >= Len(old) /\ USizeGe(x - mk, Len(new))
                   THEN /\ mx' = x
                        /\ my' = x - mk
                        /\ mfound' = TRUE
                        /\ mtrace' = Append(mtrace, v2)
                        /\ md' = Len(mtrace)
                        /\ pc' = "myers_back"
                        /\ UNCHANGED mk
                   ELSE IF mk + 2 <= md
                   THEN /\ mk' = mk + 2
                        /\ UNCHANGED <<pc, mtrace, md, mx, my, mfound>>
                   ELSE /\ mtrace' = Append(mtrace, v2)
                        /\ IF md + 1 <= Len(old) + Len(new)
                           THEN md' = md + 1 /\ mk' = 0 - (md + 1) /\ pc' = pc
                           ELSE md' = Len(mtrace) /\ mk' = mk /\ pc' = "myers_back"
                        /\ UNCHANGED <<mx, my, mfound>>
    /\ UNCHANGED <<old, new, script, pos, builder, hunks, apply_old_line, result, hunk_iter, outcome>>
    /\ UNCHANGED mchanges
    /\ UNCHANGED <<treeVars, codecVars>>

\* The diagonals the choice of prev_k reads in round d on diagonal k
\* (`k == d ||` cuts the reads short).
PrevKReads(d, k) == IF k = 0 - d \/ k = d THEN {} ELSE {k - 1, k + 1}

RECURSIVE UnsnakeSlots(_, _, _, _)
\* The slots the back-trace's snake loop reads from (x, y) down to (prev_x,
\* prev_y): old[x - 1] and new[y - 1] at each test of the loop's third guard.
UnsnakeSlots(x, y, prev_x, prev_y) ==
    IF x > prev_x /\ y > prev_y
    THEN {Slot("old", x - 1), Slot("new", y - 1)} \cup
         (IF x - 1 \in 0..(Len(old) - 1) /\ y - 1 \in 0..(Len(new) - 1) /\ old[x] = new[y]
          THEN UnsnakeSlots(x - 1, y - 1, prev_x, prev_y)
          ELSE {})
    ELSE {}

\* The slot is inside its vector.
InBounds(slot) ==
    IF slot.arr = "old" THEN slot.idx \in 0..(Len(old) - 1)
    ELSE IF slot.arr = "new" THEN slot.idx \in 0..(Len(new) - 1)
    ELSE slot.idx \in (0 - (Len(old) + Len(new)))..(Len(old) + Len(new))

\* One turn of `for d in (0..trace.len()).rev()` of traceback.
MyersBack ==
    /\ pc = "myers_back"
    /\ md >= 0
    /\ LET vd == mtrace[md + 1]
           diag == mx - my
           reads == PrevKReads(md, diag)
       IN  IF ~InV(vd, reads)
           THEN /\ pc' = "myers_panic"
                /\ macc' = {Slot("v", j) : j \in reads}
                /\ UNCHANGED <<md, mx, my, mchanges>>
           ELSE LET prev_k == PrevK(vd, md, diag) IN
                IF ~InV(vd, {prev_k})
                THEN /\ pc' = "myers_panic"
                     /\ macc' = {Slot("v", j) : j \in reads \cup {prev_k}}
                     /\ UNCHANGED <<md, mx, my, mchanges>>
                ELSE LET prev_x == VGet(vd, prev_k)
                         prev_y == prev_x - prev_k
                         snake == UnsnakeSlots(mx, my, prev_x, prev_y)
                     IN  IF \E a \in snake : ~InBounds(a)
                         THEN /\ pc' = "myers_panic"
                              /\ macc' = {Slot("v", j) : j \in reads \cup {prev_k}} \cup snake
                              /\ UNCHANGED <<md, mx, my, mchanges>>
                         ELSE LET u == Unsnake(old, new, mx, my, prev_x, prev_y, mchanges)
                                  edit == IF md = 0 THEN {}
                                          ELSE IF prev_k = diag - 1 THEN {Slot("old", u.x - 1)}
                                          ELSE {Slot("new", u.y - 1)}
                              IN  /\ macc' = {Slot("v", j) : j \in reads \cup {prev_k}}
                                                 \cup snake \cup edit
                                  /\ IF \E a \in edit : ~InBounds(a)
                                     THEN /\ pc' = "myers_panic"
                                          /\ UNCHANGED <<md, mx, my, mchanges>>
                                     ELSE /\ mchanges' =
                                                 IF md > 0
                                                 THEN Append(u.changes,
                                                             StepEdit(old, new, u.x, u.y, prev_k, diag))
                                                 ELSE u.changes
                                          /\ mx' = prev_x
                                          /\ my' = prev_y
                                          /\ md' = md - 1
                                          /\ pc' = pc
    /\ UNCHANGED <<old, new, script, pos, builder, hunks, apply_old_line, result, hunk_iter, outcome>>
    /\ UNCHANGED <<mv, mtrace, mk, mfound>>
    /\ UNCHANGED <<treeVars, codecVars>>

\* The slots of old the last loop of traceback reads: it runs while x > 0 and
\* y > 0, and a wrapped y stays above 0.
DrainSlots(x, y) ==
    {Slot("old", i - 1) : i \in {j \in 1..x : y < 0 \/ x - j < y}}

\* The end of traceback: the last loop and changes.reverse().
MyersFinish ==
    /\ pc = "myers_back"
    /\ md < 0
    /\ macc' = DrainSlots(mx, my)
    /\ IF \E a \in DrainSlots(mx, my) : ~InBounds(a)
       THEN pc' = "myers_panic" /\ UNCHANGED script
       ELSE script' = Reverse(Drain(old, mx, my, mchanges)) /\ pc' = "myers_done"
    /\ UNCHANGED <<old, new, pos, builder, hunks, apply_old_line, result, hunk_iter, outcome>>
    /\ UNCHANGED <<mv, mtrace, md, mk, mx, my, mfound, mchanges>>
    /\ UNCHANGED <<treeVars, codecVars>>

NextMyers == MyersStart \/ MyersForward \/ MyersBack \/ MyersFinish

\* myers::diff(old, new), one loop turn at a time.
SpecMyers == InitMyers /\ [][NextMyers]_vars

\* ------------------------------------------------------------------ from_patch on any text

\* The first two lines of the texts given to from_patch: "--- old" and
\* "+++ new", in this order or swapped.
HeaderPairs ==
    {<<<<"-", "-", "-", " ", "o", "l", "d">>, <<"+", "+", "+", " ", "n", "e", "w">>>>,
     <<<<"+", "+", "+", " ", "n", "e", "w">>, <<"-", "-", "-", " ", "o", "l", "d">>>>}

\* The later lines: hunk headers, well-formed and not, and edit lines with and
\* without one of the three prefixes.
BodyLines ==
    {<<"@", "@", " ", "-", "1", ",", "2", " ", "+", "3", ",", "4", " ", "@", "@">>,
     <<"@", "@", " ", "-", "1", ",", "2", " ", "@", "@">>,
     <<"@", "@", " ", "-", "x", ",", "2", " ", "+", "3", ",", "4", " ", "@", "@">>,
     <<"@", "@", " ", "-", "1", ",", "2", " ", "+", "y", ",", "4", " ", "@", "@">>,
     <<"@", "@", " ", "-", "1", " ", "+", "3", " ", "@", "@">>,
     <<"@", "@">>,
     <<" ", "a">>,
     <<"+", "a">>,
     <<"-", "a">>,
     <<>>,
     <<"a">>}

\* The most lines after the first two.
MaxBodyLines == 3

ParseTexts ==
    {Join(hp \o body, <<LF>>) : hp \in HeaderPairs, body \in SeqsUpTo(BodyLines, MaxBodyLines)}

InitParse ==
    /\ pc = "from_patch"
    /\ SeqIdle
    /\ TreeIdle
    /\ MyersIdle
    /\ hs = <<>>
    /\ patch \in ParseTexts
    /\ parsed = Running

\* Vec::<Hunk<String>>::from_patch(s) on any text s.
SpecParse == InitParse /\ [][FromPatch]_vars

\* ------------------------------------------------------------------ claims

NonInsert == {"Delete", "Equal"}
NonDelete == {"Insert", "Equal"}
NonEqual == {"Insert", "Delete"}

IsNonEqual(e) == e.tag \in NonEqual

\* The hunk list has been returned by finish.
Hunked == pc \in {"apply", "loop", "done"}

\* C1: apply(old, hunks(diff(old, new))) returns Ok(new) for any two sequences.
SeqApplyRoundTrip == pc = "done" => outcome = Ok(new)

\* C4: in diff(old, new) the non-Insert payloads are old in order and the
\* non-Delete payloads are new in order, hence Delete + Equal = |old| and
\* Insert + Equal = |new|.
EditScriptProjection ==
    pc # "diff" =>
        /\ FilterMap(script, NonInsert) = old
        /\ FilterMap(script, NonDelete) = new
        /\ Count(script, NonInsert) = Len(old)
        /\ Count(script, NonDelete) = Len(new)

EditScriptProjectionWitness ==
    /\ pc = "hunks"
    /\ pos = 0
    /\ Len(old) >= 3
    /\ \A t \in Tags : Count(script, {t}) >= 1
    /\ script[1].tag = "Insert"

RECURSIVE LCS(_, _)
\* The length of a longest common subsequence of a and b.
LCS(a, b) ==
    IF a = <<>> \/ b = <<>> THEN 0
    ELSE IF Head(a) = Head(b) THEN 1 + LCS(Tail(a), Tail(b))
    ELSE Max(LCS(Tail(a), b), LCS(a, Tail(b)))

\* C5: the number of Insert and Delete edits of diff(old, new) is
\* |old| + |new| - 2 * LCS(old, new): the script is a shortest one.
Minimality ==
    pc = "hunks" /\ pos = 0 =>
        Count(script, NonEqual) = Len(old) + Len(new) - 2 * LCS(old, new)

MinimalityWitness ==
    /\ pc = "hunks"
    /\ pos = 0
    /\ LCS(old, new) >= 2
    /\ Count(script, {"Insert"}) >= 1
    /\ Count(script, {"Delete"}) >= 2
    /\ old[1] # new[1]

\* C6: hunks do not share context: each hunk starts at or after the end of
\* the range of the hunk before it, in old and in new.
HunksDisjoint ==
    Hunked =>
        \A i \in 1..(Len(hunks) - 1) :
            /\ hunks[i + 1].old_start >= hunks[i].old_start + Count(hunks[i].changes, NonInsert)
            /\ hunks[i + 1].new_start >= hunks[i].new_start + Count(hunks[i].changes, NonDelete)

RECURSIVE LeadingEquals(_)
LeadingEquals(ch) ==
    IF ch = <<>> \/ Head(ch).tag # "Equal" THEN 0 ELSE 1 + LeadingEquals(Tail(ch))

TrailingEquals(ch) == LeadingEquals(Reverse(ch))

\* C7: every hunk of hunks(script) starts with at most 3 consecutive Equal
\* edits, ends with at most 3 consecutive Equal edits and holds at least one
\* Insert or Delete.
HunkShape ==
    Hunked =>
        \A i \in 1..Len(hunks) :
            /\ LeadingEquals(hunks[i].changes) <= 3
            /\ TrailingEquals(hunks[i].changes) <= 3
            /\ Count(hunks[i].changes, NonEqual) >= 1

HunkShapeWitness ==
    /\ Hunked
    /\ Len(script) >= 8
    /\ \A i \in 1..4 : script[i].tag = "Equal"
    /\ \E i \in 1..Len(hunks) :
        /\ LeadingEquals(hunks[i].changes) = 3
        /\ TrailingEquals(hunks[i].changes) = 3

\* C8: old_start (new_start) of every hunk is the number of non-Insert
\* (non-Delete) edits of the script before the hunk's first edit, and the
\* subtraction that computes it never goes below zero.
HunkPositions ==
    Hunked =>
        \A i \in 1..Len(hunks) :
            LET first == hunks[i].changes[1].val
                before == SubSeq(script, 1, first - 1)
            IN  /\ hunks[i].old_start >= 0
                /\ hunks[i].new_start >= 0
                /\ hunks[i].old_start = Count(before, NonInsert)
                /\ hunks[i].new_start = Count(before, NonDelete)

HunkPositionsWitness ==
    /\ Hunked
    /\ Len(hunks) >= 2
    /\ hunks[2].changes[1].tag = "Equal"
    /\ hunks[2].old_start > hunks[2].new_start
    /\ hunks[2].new_start > 0

\* C9: the non-Equal edits of the hunks of hunks(diff(old, new)), in hunk
\* order, are the non-Equal edits of the script, each once and in order.
HunkCoverage ==
    Hunked => SelectSeq(FlatChanges(hunks), IsNonEqual) = SelectSeq(script, IsNonEqual)

HunkCoverageWitness ==
    /\ Hunked
    /\ Len(hunks) >= 2
    /\ Count(script, {"Insert"}) >= 1
    /\ Count(script, {"Delete"}) >= 1

\* The cursor of apply when it meets the j-th edit of a hunk entered at line.
CursorAt(line, edits, j) == line + Count(SubSeq(edits, 1, j - 1), NonInsert)

\* The Equal edits of a hunk entered at line that old contradicts.
Mismatches(line, edits) ==
    {j \in 1..Len(edits) :
        /\ edits[j].tag = "Equal"
        /\ CursorAt(line, edits, j) < Len(old)
        /\ old[CursorAt(line, edits, j) + 1] # edits[j].val}

FirstMismatch(line, edits) ==
    CHOOSE j \in Mismatches(line, edits) : \A i \in Mismatches(line, edits) : j <= i

\* apply is about to enter the hunk it peeks at.
AtHunk ==
    /\ pc = "loop"
    /\ apply_old_line < Len(old)
    /\ hunk_iter < Len(hunks)
    /\ apply_old_line = hunks[hunk_iter + 1].old_start

\* C10: when apply enters a hunk and meets an Equal(t) with old[i] # t, it
\* returns Err(InvalidFormat) whose message names the index i of the first
\* mismatching line, and returns no sequence.
ContextVerification ==
    [][AtHunk /\ Mismatches(apply_old_line, hunks[hunk_iter + 1].changes) # {} =>
        LET ch == hunks[hunk_iter + 1].changes
            j == FirstMismatch(apply_old_line, ch)
            i == CursorAt(apply_old_line, ch, j)
        IN  /\ pc' = "done"
            /\ outcome'.kind = "Err"
            /\ outcome'.err = "InvalidFormat"
            /\ outcome'.msg[1] = "Context mismatch at line"
            /\ outcome'.msg[2] = i]_vars

ContextVerificationWitness ==
    /\ pc = "done"
    /\ outcome.kind = "Err"
    /\ outcome.msg[1] = "Context mismatch at line"
    /\ hunk_iter = 1
    /\ outcome.msg[2] > hunks[2].old_start
    /\ result # <<>>

\* C2: recursive::apply(old, recursive::diff(old, new)) completes without
\* aborting and returns new, for two trees of the same variant at every path.
TreeApplyRoundTrip == pc = "tree_done" => tout = Ok(tnew)

\* C3: from_patch(hs.to_patch(None, None)) returns Ok(hs) for any list hs of
\* hunks over strings.
TextualRoundTrip == pc = "codec_done" => parsed = Ok(hs)

\* The elements of old a hunk consumes: its Equal and Delete edits.
Consumed(h) == Count(h.changes, NonInsert)

\* A hunk list whose positions the applier is to reject for this old: a hunk
\* starts at or past the end of old, or starts below the position that the
\* hunks before it have already consumed.
BadPositions(hl) ==
    \/ \E i \in 1..Len(hl) : hl[i].old_start >= Len(old)
    \/ \E i \in 1..Len(hl) : \E j \in 1..(i - 1) :
           hl[i].old_start < hl[j].old_start + Consumed(hl[j])

\* C11: for a non-empty old, apply does not return Ok on a hunk list with a
\* non-monotonic, overlapping or out-of-range old_start, and never returns Ok
\* with a hunk left unapplied.
BadPositionsRejected ==
    pc = "done" /\ old # <<>> /\ outcome.kind = "Ok" =>
        ~BadPositions(hunks) /\ hunk_iter = Len(hunks)

\* C12: apply returns Ok or Err for every old and every hunk list; it never
\* aborts.
ApplyTotal == pc = "done" => outcome.kind \in {"Ok", "Err"}

IsInsert(e) == e.tag = "Insert"

RECURSIVE InsertPayloads(_)
\* The payloads of the Insert edits of all the hunks, in order.
InsertPayloads(hl) ==
    IF hl = <<>> THEN <<>>
    ELSE LET last == hl[Len(hl)]
             ins == SelectSeq(last.changes, IsInsert)
         IN  InsertPayloads(SubSeq(hl, 1, Len(hl) - 1)) \o [i \in 1..Len(ins) |-> ins[i].val]

\* C13: with an empty old, apply returns Ok of the Insert payloads of all the
\* hunks in order, whatever else the hunks hold; with a non-empty old and no
\* hunks it returns Ok(old).
ApplySpecialCases ==
    pc = "done" =>
        /\ old = <<>> => outcome = Ok(InsertPayloads(hunks))
        /\ old # <<>> /\ hunks = <<>> => outcome = Ok(old)

\* An empty old met two hunks that start at 1 and hold an Equal, a Delete and
\* Inserts.
ApplySpecialCasesWitness ==
    /\ pc = "done"
    /\ old = <<>>
    /\ Len(hunks) = 2
    /\ hunks[1].old_start = 1
    /\ hunks[1].changes = <<Equal("a"), Insert("b")>>
    /\ hunks[2].changes = <<Insert("a"), Delete("a")>>
    /\ outcome = Ok(<<"b", "a">>)

\* The shapes of the round-trip tests: HashMap<String, i32>, Vec<i32>,
\* Vec<HashMap<String, i32>>.
TestedShapes == {<<"map", "leaf">>, <<"vec", "leaf">>, <<"vec", "map", "leaf">>}

\* C14: for two flat maps, and for two root-level sequences of leaves or of
\* maps, recursive::apply(old, recursive::diff(old, new)) returns new.
TestedShapesRoundTrip ==
    pc = "tree_done" /\ ty \in TestedShapes => tout = Ok(tnew)

\* A sequence of one map became a sequence of another map.
TestedShapesRoundTripWitness ==
    /\ pc = "tree_done"
    /\ ty = <<"vec", "map", "leaf">>
    /\ told = <<[x \in {"k"} |-> 1]>>
    /\ tnew = <<[x \in {"l"} |-> 2]>>
    /\ Len(changes) = 1
    /\ tout = Ok(tnew)

\* C15: recursive::diff(x, x) is the empty change list for every x, and
\* recursive::apply(x, []) returns x.
NoChangeDiff ==
    /\ pc \in {"tree_apply", "tree_done"} /\ told = tnew => changes = <<>>
    /\ pc = "tree_done" /\ changes = <<>> => tout = Ok(told)

\* A map of two non-empty sequences was diffed against itself and applied.
NoChangeDiffWitness ==
    /\ pc = "tree_done"
    /\ ty = <<"map", "vec", "leaf">>
    /\ DOMAIN told = Keys
    /\ \A k \in Keys : told[k] # <<>>
    /\ told = tnew
    /\ changes = <<>>
    /\ tout = Ok(told)

HasPrefix(path, prefix) ==
    Len(path) >= Len(prefix) /\ SubSeq(path, 1, Len(prefix)) = prefix

\* The changes of chs at or below the path prefix, in order.
Under(chs, prefix) ==
    LET below(c) == HasPrefix(c.path, prefix) IN SelectSeq(chs, below)

\* chs is what the claim C16 allows for the maps ma and mb at path p.
MapDispatchAt(ma, mb, p, chs) ==
    /\ \A i \in 1..Len(chs) :
           \E k \in DOMAIN ma \cup DOMAIN mb : HasPrefix(chs[i].path, Append(p, Key(k)))
    /\ \A k \in DOMAIN ma \cup DOMAIN mb :
           LET q == Append(p, Key(k))
               sub == Under(chs, q)
           IN  IF k \in DOMAIN ma /\ k \in DOMAIN mb
               THEN \E it \in Iterations : sub = diff_nodes(ma[k], mb[k], q, it)
               ELSE IF k \in DOMAIN ma
               THEN /\ Len(sub) = 1
                    /\ sub[1].path = q
                    /\ IF ma[k].kind = "Leaf"
                       THEN sub[1].kind.ck = "Removed" /\ sub[1].kind.old = ma[k].val
                       ELSE sub[1].kind.ck = "StructureRemoved" /\ sub[1].kind.old = ma[k]
               ELSE /\ Len(sub) = 1
                    /\ sub[1].path = q
                    /\ IF mb[k].kind = "Leaf"
                       THEN sub[1].kind.ck = "Added" /\ sub[1].kind.new = mb[k].val
                       ELSE sub[1].kind.ck = "StructureAdded" /\ sub[1].kind.new = mb[k]

\* C16: the diff of two maps at path p holds one Removed or NodeRemoved per key
\* only in the old map, one Added or NodeAdded per key only in the new map, the
\* diff of the two values per key in both, all at p + [Key(k)], and nothing else.
MapDispatch ==
    pc = "tree_apply" /\ Head(ty) = "map" =>
        LET ma == to_node(ty, told).val
            mb == to_node(ty, tnew).val
        IN  /\ MapDispatchAt(ma, mb, <<>>, changes)
            /\ \A k \in DOMAIN ma \cap DOMAIN mb :
                   ma[k].kind = "Map" =>
                       MapDispatchAt(ma[k].val, mb[k].val, <<Key(k)>>, Under(changes, <<Key(k)>>))

\* A map of maps lost the key l, a structure, and changed a leaf under the key k.
MapDispatchWitness ==
    /\ pc = "tree_apply"
    /\ ty = <<"map", "map", "leaf">>
    /\ told = [x \in {"k", "l"} |-> [y \in {"k"} |-> 1]]
    /\ tnew = [x \in {"k"} |-> [y \in {"k"} |-> 2]]
    /\ Len(changes) = 2
    /\ \E i \in 1..2 :
           changes[i] = Change(<<Key("l")>>, StructureRemoved(Map([y \in {"k"} |-> Leaf(1)])))
    /\ \E i \in 1..2 : changes[i] = Change(<<Key("k"), Key("k")>>, Modified(1, 2))

\* chs is what the claim C17 allows for the unequal sequences sa and sb at path p.
SequenceDispatchAt(sa, sb, p, chs) ==
    /\ Len(chs) = 1
    /\ chs[1].path = p
    /\ chs[1].kind.ck = "SequenceChange"
    /\ chs[1].kind.edits = diff(sa, sb)
    /\ FilterMap(chs[1].kind.edits, NonInsert) = sa
    /\ FilterMap(chs[1].kind.edits, NonDelete) = sb

\* C17: the diff of two unequal sequences at path p is one change at p, the
\* SequenceChange of the Myers edit script over the whole elements; nothing is
\* reported below p.
SequenceDispatch ==
    pc = "tree_apply" =>
        /\ Head(ty) = "vec" /\ told # tnew =>
               SequenceDispatchAt(to_node(ty, told).val, to_node(ty, tnew).val, <<>>, changes)
        /\ ty = <<"map", "vec", "leaf">> =>
               \A k \in DOMAIN told \cap DOMAIN tnew :
                   told[k] # tnew[k] =>
                       SequenceDispatchAt(to_node(ty, told).val[k].val, to_node(ty, tnew).val[k].val,
                                          <<Key(k)>>, Under(changes, <<Key(k)>>))

\* Two sequences of one map each, the maps different in one leaf: the old map
\* is deleted whole and the new one is inserted whole.
SequenceDispatchWitness ==
    /\ pc = "tree_apply"
    /\ ty = <<"vec", "map", "leaf">>
    /\ told = <<[x \in {"k"} |-> 1]>>
    /\ tnew = <<[x \in {"k"} |-> 2]>>
    /\ changes = <<Change(<<>>, SequenceChange(<<Insert(Map([x \in {"k"} |-> Leaf(2)])),
                                                 Delete(Map([x \in {"k"} |-> Leaf(1)]))>>))>>

\* The header line the claim C18 gives the hunk h.
ExpectedHeader(h) ==
    <<"@", "@", " ", "-">> \o ToDecimal(h.old_start) \o <<",">> \o ToDecimal(Count(h.changes, NonInsert))
        \o <<" ", "+">> \o ToDecimal(h.new_start) \o <<",">> \o ToDecimal(Count(h.changes, NonDelete))
        \o <<" ", "@", "@">>

ExpectedPrefix(e) == IF e.tag = "Equal" THEN " " ELSE IF e.tag = "Insert" THEN "+" ELSE "-"

RECURSIVE ExpectedLines(_)
\* For each hunk in order: its header line, then one line per edit.
ExpectedLines(hl) ==
    IF hl = <<>> THEN <<>>
    ELSE LET ch == Head(hl).changes
         IN  <<ExpectedHeader(Head(hl))>>
                 \o [i \in 1..Len(ch) |-> <<ExpectedPrefix(ch[i])>> \o ch[i].val]
                 \o ExpectedLines(Tail(hl))

\* C18: the lines of to_patch of a non-empty hunk list are the two header
\* lines, then for each hunk in order its '@@' line with the counts of its
\* non-Insert and non-Delete edits, then one line per edit; so every '@@'
\* header is a line of its own.
PatchEncoding ==
    pc \in {"from_patch", "codec_done"} /\ hs # <<>> =>
        Split(patch, LF) = <<<<"-", "-", "-", " ", "o", "l", "d">>, <<"+", "+", "+", " ", "n", "e", "w">>>> \o ExpectedLines(hs)

\* The lines of a text after its first two.
BodyOf(text) == LET l == Split(text, LF) IN SubSeq(l, 3, Len(l))

\* The text starts with a '---' line and a '+++' line.
ValidFileHeader(text) ==
    LET l == Split(text, LF)
    IN  Len(l) >= 2 /\ StartsWith(l[1], <<"-", "-", "-">>) /\ StartsWith(l[2], <<"+", "+", "+">>)

\* from_patch reads the lines before the i-th body line without an error.
ReachesLine(text, i) ==
    ValidFileHeader(text) /\ FromPatchLines(SubSeq(BodyOf(text), 1, i - 1), None, <<>>).kind = "Ok"

IsHeaderLine(line) == StartsWith(line, <<"@", "@">>)

\* A line that is no '@@' header and does not start with ' ', '+' or '-'.
IsBadToken(line) == ~IsHeaderLine(line) /\ (line = <<>> \/ Head(line) \notin {" ", "+", "-"})

\* Some '@@' header stands before the i-th body line.
InHunk(body, i) == \E j \in 1..(i - 1) : IsHeaderLine(body[j])

IsNat(str) == str # <<>> /\ \A i \in 1..Len(str) : IsDigit(str[i])

\* sign, then <nat>,<nat>
IsRange(part, sign) ==
    /\ part # <<>>
    /\ Head(part) = sign
    /\ LET nums == Split(Tail(part), ",")
       IN  Len(nums) = 2 /\ IsNat(nums[1]) /\ IsNat(nums[2])

\* A line of the form '@@ -<nat>,<nat> +<nat>,<nat> @@'.
WellFormedHeader(line) ==
    LET parts == Split(line, " ")
    IN  /\ Len(parts) = 4
        /\ parts[1] = <<"@", "@">>
        /\ IsRange(parts[2], "-")
        /\ IsRange(parts[3], "+")
        /\ parts[4] = <<"@", "@">>

\* C20: a line that starts with '@@' and is not of the form
\* '@@ -<nat>,<nat> +<nat>,<nat> @@' makes from_patch return Err(InvalidFormat);
\* from_patch does not abort.
MalformedHeaderRejected ==
    pc = "codec_done" =>
        /\ parsed.kind # "Panic"
        /\ \A i \in 1..Len(BodyOf(patch)) :
               /\ ReachesLine(patch, i)
               /\ IsHeaderLine(BodyOf(patch)[i])
               /\ ~WellFormedHeader(BodyOf(patch)[i])
               => parsed.kind = "Err" /\ parsed.err = "InvalidFormat"

\* C21: myers::diff(x, x) is Equal(x[0]), ..., Equal(x[n-1]) for every
\* sequence x, the empty one included.
Idempotence ==
    pc = "hunks" /\ old = new => script = [i \in 1..Len(old) |-> Equal(old[i])]

\* A sequence of both letters was diffed against itself.
IdempotenceWitness ==
    /\ pc = "hunks"
    /\ old = <<"a", "b", "b", "a">>
    /\ new = old
    /\ Len(script) = 4

\* C22: myers::diff([], x) is Insert(x[0]), ..., Insert(x[m-1]) and
\* myers::diff(x, []) is Delete(x[0]), ..., Delete(x[n-1]), in the order of x.
DegenerateInputs ==
    pc = "hunks" =>
        /\ old = <<>> => script = [i \in 1..Len(new) |-> Insert(new[i])]
        /\ new = <<>> => script = [i \in 1..Len(old) |-> Delete(old[i])]

\* A sequence of both letters was diffed against the empty one.
DegenerateInputsWitness ==
    /\ pc = "hunks"
    /\ old = <<"a", "b", "a">>
    /\ new = <<>>
    /\ script = <<Delete("a"), Delete("b"), Delete("a")>>

\* C23: diff(a, b) and diff(b, a) have as many Equals, and the Inserts of
\* each are as many as the Deletes of the other.
SymmetryOfCounts ==
    pc = "hunks" =>
        LET back == diff(new, old)
        IN  /\ Count(script, {"Equal"}) = Count(back, {"Equal"})
            /\ Count(script, {"Insert"}) = Count(back, {"Delete"})
            /\ Count(script, {"Delete"}) = Count(back, {"Insert"})

\* Two sequences of different lengths with a common part were diffed.
SymmetryOfCountsWitness ==
    /\ pc = "hunks"
    /\ old = <<"a", "b", "b", "a">>
    /\ new = <<"b", "a", "b">>
    /\ Count(script, {"Equal"}) = 2
    /\ Count(script, {"Delete"}) = 2
    /\ Count(script, {"Insert"}) = 1

Disjoint(sa, sb) == \A i \in 1..Len(sa) : \A j \in 1..Len(sb) : sa[i] # sb[j]

\* C24, first part: for non-empty old and new without a common element, the
\* script is the Inserts of new in order, then the Deletes of old in order.
DisjointOrdering ==
    pc = "myers_done" /\ old # <<>> /\ new # <<>> /\ Disjoint(old, new) =>
        script = [i \in 1..Len(new) |-> Insert(new[i])] \o [i \in 1..Len(old) |-> Delete(old[i])]

\* C24, second part: in every run of non-Equal edits the Inserts precede the
\* Deletes, that is, no Delete is followed at once by an Insert.
InsertsBeforeDeletes ==
    pc = "myers_done" =>
        \A i \in 1..(Len(script) - 1) :
            ~(script[i].tag = "Delete" /\ script[i + 1].tag = "Insert")

\* C24: both parts.
OutputOrdering == DisjointOrdering /\ InsertsBeforeDeletes

\* Two letters were inserted before the one letter of old was deleted.
OutputOrderingWitness ==
    /\ pc = "myers_done"
    /\ old = <<"a">>
    /\ new = <<"b", "c">>
    /\ script = <<Insert("b"), Insert("c"), Delete("a")>>

\* C28: myers::diff never fails on non-empty old and new: no step reads or
\* writes v outside the diagonals -(n+m)..n+m or old or new outside its length,
\* the forward pass leaves by `break 'edits` in a round d <= n+m with the end
\* point (n, m), and the rounds of the back-trace end with x = 0.
MyersNeverFails ==
    /\ pc # "myers_panic"
    /\ \A a \in macc : InBounds(a)
    /\ pc = "myers_forward" => md <= Len(old) + Len(new) /\ mk \in (0 - md)..md
    /\ pc = "myers_back" =>
           /\ mfound
           /\ Len(mtrace) <= Len(old) + Len(new) + 1
           /\ md = Len(mtrace) - 1 => mx = Len(old) /\ my = Len(new)
           /\ md < 0 => mx = 0
    /\ pc = "myers_done" /\ old # <<>> /\ new # <<>> => mx = 0

\* Two sequences without a common element were diffed: the forward pass went
\* to the last round, n + m, and the back-trace ended.
MyersNeverFailsWitness ==
    /\ pc = "myers_done"
    /\ old = <<"a", "b">>
    /\ new = <<"c">>
    /\ Len(mtrace) = 4
    /\ mx = 0
    /\ script = <<Insert("c"), Delete("a"), Delete("b")>>

\* Two changes are the same: the path and the variant before the payload.
SameChange(c, e) == c.path = e.path /\ c.kind.ck = e.kind.ck /\ c.kind = e.kind

\* Two change lists are the same list, element by element.
SameChanges(cs, es) == Len(cs) = Len(es) /\ \A i \in 1..Len(cs) : SameChange(cs[i], es[i])

\* C25: recursive::diff(old, new) is the same change list, in the same order,
\* whatever order the key unions of the maps are iterated in.
DeterministicDiff ==
    pc = "tree_apply" =>
        \A it \in Iterations :
            SameChanges(changes, diff_nodes(to_node(ty, told), to_node(ty, tnew), <<>>, it))

\* The state of the builder after the first pos edits of the script.
BuilderOk ==
    LET done == SubSeq(script, 1, pos) IN
    /\ Len(builder.context_buffer) <= 3
    /\ \A i \in 1..Len(builder.context_buffer) : builder.context_buffer[i].tag = "Equal"
    /\ Len(builder.current) <= 1
    /\ builder.current # None =>
           /\ builder.trailing_equal_count < 3
           /\ builder.trailing_equal_count = TrailingEquals(builder.current[1].changes)
    /\ builder.old_line = Count(done, NonInsert)
    /\ builder.new_line = Count(done, NonDelete)

\* The hunks closed before a step are the first hunks closed after it.
ClosedKept ==
    /\ Len(builder.hunks) <= Len(builder'.hunks)
    /\ SubSeq(builder'.hunks, 1, Len(builder.hunks)) = builder.hunks

\* C26: after every call of HunkBuilder::process, on any script, context_buffer
\* holds at most 3 edits, all Equal; at most one hunk is open; while a hunk is
\* open trailing_equal_count is below 3 and is the number of Equal edits after
\* its last non-Equal edit; old_line and new_line count the non-Insert and the
\* non-Delete edits processed; the hunks already closed are not changed.
BuilderInvariant == [][BuilderOk' /\ ClosedKept]_vars

\* A hunk was closed, another is open with two Equals after its last change,
\* and more Deletes than Inserts were processed.
BuilderInvariantWitness ==
    /\ pc = "hunks"
    /\ pos = Len(script)
    /\ Len(builder.hunks) >= 1
    /\ builder.current # None
    /\ builder.trailing_equal_count = 2
    /\ Len(builder.context_buffer) = 2
    /\ builder.old_line > builder.new_line

\* The edit at position p of the script is an edit of the i-th hunk.
HunkHolds(i, p) == \E j \in 1..Len(hunks[i].changes) : hunks[i].changes[j].val = p

\* The edits at positions p and q of the script are in one hunk.
SameHunk(p, q) == \E i \in 1..Len(hunks) : HunkHolds(i, p) /\ HunkHolds(i, q)

\* The Equal edits, and the non-Equal edits, strictly between positions p and q.
EqualsBetween(p, q) == Count(SubSeq(script, p + 1, q - 1), {"Equal"})
ChangesBetween(p, q) == Count(SubSeq(script, p + 1, q - 1), NonEqual)

\* C27: in hunks(script) two non-Equal edits with at most 2 Equal edits
\* between them are in the same hunk, two consecutive non-Equal edits with 3
\* or more Equal edits between them are in different hunks, and every hunk
\* but the last ends with exactly 3 Equal edits.
GroupingThreshold ==
    Hunked =>
        /\ \A p, q \in 1..Len(script) :
               p < q /\ IsNonEqual(script[p]) /\ IsNonEqual(script[q]) =>
                   /\ EqualsBetween(p, q) <= 2 => SameHunk(p, q)
                   /\ ChangesBetween(p, q) = 0 /\ EqualsBetween(p, q) >= 3 => ~SameHunk(p, q)
        /\ \A i \in 1..(Len(hunks) - 1) : TrailingEquals(hunks[i].changes) = 3

\* Two changes two Equals apart, then a change three Equals further on.
GroupingThresholdWitness ==
    /\ Hunked
    /\ Len(script) = 8
    /\ [i \in 1..8 |-> script[i].tag] =
           <<"Insert", "Equal", "Equal", "Delete", "Equal", "Equal", "Equal", "Insert">>
    /\ Len(hunks) = 2
    /\ SameHunk(1, 4)
    /\ ~SameHunk(4, 8)

\* The payloads of the Equal and Insert edits, in order.
KeptPayloads(edits) ==
    LET kept(e) == e.tag # "Delete"
        ks == SelectSeq(edits, kept)
    IN  [i \in 1..Len(ks) |-> ks[i].val]

\* C29: recursive::apply of a change of kind SequenceChange(edits) to a Sequence
\* node yields the Equal and Insert payloads of edits in order, without the
\* Deletes, whatever the content of the sequence and the path of the change.
SequenceChangeApplied ==
    /\ pc = "tree_apply" /\ cpos = 1 =>
           node = Sequence(KeptPayloads(changes[1].kind.edits))
    /\ pc = "tree_done" =>
           LET ks == KeptPayloads(changes[1].kind.edits)
           IN  tout = Ok([i \in 1..Len(ks) |-> ks[i].val])

\* A change with a path of two segments whose Equal and Delete payloads are
\* not in the sequence it is applied to.
SequenceChangeAppliedWitness ==
    /\ pc = "tree_done"
    /\ told = <<1>>
    /\ Len(changes[1].path) = 2
    /\ changes[1].kind.edits = <<Equal(Leaf(2)), Delete(Leaf(2))>>
    /\ tout = Ok(<<2>>)

\* The index i of old (from 0) lies in the range of a hunk:
\* [old_start, old_start + number of non-Insert edits).
InHunkRange(i) ==
    \E h \in 1..Len(hunks) :
        /\ hunks[h].old_start <= i
        /\ i < hunks[h].old_start + Count(hunks[h].changes, NonInsert)

\* The elements of old outside every hunk range, in order.
FrameOf ==
    LET out == {i \in 0..(Len(old) - 1) : ~InHunkRange(i)}
        RECURSIVE Pick(_)
        Pick(i) == IF i >= Len(old) THEN <<>>
                   ELSE IF i \in out THEN <<old[i + 1]>> \o Pick(i + 1)
                   ELSE Pick(i + 1)
    IN  Pick(0)

RECURSIVE IsSubsequence(_, _)
\* s is t with some elements left out.
IsSubsequence(s, t) ==
    IF s = <<>> THEN TRUE
    ELSE IF t = <<>> THEN FALSE
    ELSE IF Head(s) = Head(t) THEN IsSubsequence(Tail(s), Tail(t))
    ELSE IsSubsequence(s, Tail(t))

\* C30: whenever apply(old, hunks) returns Ok(r) for a non-empty old, the
\* elements of old whose index lies outside every hunk range
\* [old_start, old_start + number of non-Insert edits) appear in r, unchanged
\* and in their order.
ApplyFrame ==
    pc = "done" /\ outcome.kind = "Ok" /\ old # <<>> => IsSubsequence(FrameOf, outcome.val)

\* A hunk rewrote the second element of old and the first was carried over.
ApplyFrameWitness ==
    /\ pc = "done"
    /\ old = <<"b", "a">>
    /\ hunks = <<Hunk(1, 0, <<Delete("a"), Insert("b")>>)>>
    /\ FrameOf = <<"b">>
    /\ outcome = Ok(<<"b", "b">>)

====
